---- MODULE Spec2Model ----
(***************************************************************************)
(* The IntoResponse derive macro of axum_thiserror_intoresponse_derive     *)
(* (src/src/lib.rs) and the two implementations it generates.              *)
(*                                                                         *)
(* A behaviour is: a type declaration and a feature selection are given    *)
(* (Init); derive_into_response expands it or panics (Derive); on an       *)
(* expanded enum the generated into_response and serialize are called on   *)
(* error values (IntoResponse, Serialize).                                 *)
(*                                                                         *)
(* Text is a sequence of strings: a message is its literal part followed   *)
(* by the substituted field values.  A StatusCode is [code |-> n], a u16   *)
(* is the number n.                                                        *)
(***************************************************************************)
EXTENDS Integers, Sequences, FiniteSets, TLC

VARIABLES
    input,              \* the DeriveInput: kind, attrs, variants
    features,           \* cargo features of the macro crate: tracing, serde
    pc,                 \* "derive", "expanded" or "panicked"
    panic_msg,          \* the panic message, "" when none
    internal_text,      \* lib.rs:79   the resolved text of a 500 response
    variant_overrides,  \* lib.rs:95   the match arms pushed by the variant loop
    tracing,            \* lib.rs:140  the token stream spliced in the 500 branch
    impls,              \* the trait implementations emitted
    call,               \* "none", "into_response" or "serialize": the last call
    self,               \* the error value of the last call
    response,           \* what into_response returned
    serialized,         \* what serialize wrote
    effects             \* what the last call did, in order

vars == <<input, features, pc, panic_msg, internal_text, variant_overrides,
          tracing, impls, call, self, response, serialized, effects>>

macro_vars == <<pc, panic_msg, internal_text, variant_overrides, tracing, impls>>
call_vars == <<call, self, response, serialized, effects>>

----------------------------------------------------------------------------
(* Bounds *)

\* variants of an enum
MaxVariants == 2
\* fields of a variant
MaxFields == 2

----------------------------------------------------------------------------
(* The syntax tree: attributes *)

\* A syn::Attribute: its path and its Meta.  tokens is the content of a
\* Meta::List; expr, lit and str describe the value of a Meta::NameValue.
Attr(path, meta, tokens, expr, lit, str) ==
    [path |-> path, meta |-> meta, tokens |-> tokens,
     expr |-> expr, lit |-> lit, str |-> str]

\* #[internal_text = "s"]
InternalTextStr(s) == Attr("internal_text", "NameValue", "", "Lit", "Str", s)
\* #[internal_text = 42]
InternalTextInt == Attr("internal_text", "NameValue", "", "Lit", "Int", "42")
\* #[internal_text = TEXT]
InternalTextExpr == Attr("internal_text", "NameValue", "", "Path", "", "TEXT")
\* #[internal_text("overridden")]
InternalTextList == Attr("internal_text", "List", "\"overridden\"", "", "", "")
\* /// docs      (that is #[doc = "docs"])
DocAttr == Attr("doc", "NameValue", "", "Lit", "Str", "docs")

\* #[status(tokens)]
StatusList(tokens) == Attr("status", "List", tokens, "", "", "")
\* #[status]
StatusPath == Attr("status", "Path", "", "", "", "")
\* #[error("...")]
ErrorAttr == Attr("error", "List", "\"...\"", "", "", "")

DefaultText == "Something went wrong"

TypeAttrs ==
    {InternalTextStr("overridden"), InternalTextStr("oops"), InternalTextInt,
     InternalTextExpr, InternalTextList, DocAttr}

VariantAttrs ==
    {StatusList("StatusCode::BAD_REQUEST"), StatusList("StatusCode::UNAUTHORIZED"),
     StatusList("StatusCode::INTERNAL_SERVER_ERROR"), StatusPath, ErrorAttr}

\* attribute lists of at most two attributes
AttrLists(S) == {<<>>} \cup {<<a>> : a \in S} \cup {<<a, b>> : a \in S, b \in S}

----------------------------------------------------------------------------
(* The syntax tree: variants and values *)

Fields(kind, n) == [kind |-> kind, n |-> n]

FieldShapes ==
    {Fields("Unit", 0)}
        \cup {Fields("Named", n) : n \in 0..MaxFields}
        \cup {Fields("Unnamed", n) : n \in 0..MaxFields}

VariantDecls == {[fields |-> f, attrs |-> a] : f \in FieldShapes, a \in AttrLists(VariantAttrs)}

\* the first two variants of the example program
BaseDecls ==
    {[fields |-> Fields("Unit", 0), attrs |-> <<ErrorAttr>>],
     [fields |-> Fields("Unit", 0),
      attrs |-> <<StatusList("StatusCode::BAD_REQUEST"), ErrorAttr>>]}

\* the variant names and the literal part of their #[error("...")] messages
Idents == <<"Internal", "ClientError", "AuthError", "AnotherError">>
Messages == <<"This shouldn't show", "Bad request", "Error:", "Failed:">>

\* enums of n variants, all but at most one of them declared as in BaseDecls
DeclsOfLen(n) ==
    IF n = 0 THEN {<<>>}
    ELSE {[i \in 1..n |-> IF i = k THEN d ELSE b[i]] :
            k \in 1..n, d \in VariantDecls, b \in [1..n -> BaseDecls]}

MkVariants(decls) ==
    [i \in DOMAIN decls |->
        [ident |-> Idents[i], fields |-> decls[i].fields, attrs |-> decls[i].attrs]]

Enums == {MkVariants(d) : d \in UNION {DeclsOfLen(n) : n \in 0..MaxVariants}}
BaseEnums == {MkVariants(d) : d \in UNION {[1..n -> BaseDecls] : n \in 0..MaxVariants}}

\* no attribute, the example's, and the example's behind one of another form
ExampleAttrLists ==
    {<<>>, <<InternalTextStr("overridden")>>,
     <<InternalTextList, InternalTextStr("overridden")>>}

\* the declarations handed to the macro: every attribute list on an enum of the
\* base declarations, every enum under the example attribute lists, and structs
\* and unions under every attribute list
Inputs ==
    {[kind |-> "enum", attrs |-> a, variants |-> e] :
        a \in AttrLists(TypeAttrs), e \in BaseEnums}
    \cup {[kind |-> "enum", attrs |-> a, variants |-> e] :
        a \in ExampleAttrLists, e \in Enums}
    \cup {[kind |-> k, attrs |-> a, variants |-> <<>>] :
        k \in {"struct", "union"}, a \in AttrLists(TypeAttrs)}

FieldVals == {"a", "b"}

\* the values of the enum: a variant and one value for each of its fields
Values ==
    UNION {{[variant |-> i, fields |-> f] :
                f \in [1..input.variants[i].fields.n -> FieldVals]} :
            i \in DOMAIN input.variants}

NoValue == [variant |-> 0, fields |-> <<>>]
NoResponse == [status |-> [code |-> 0], body |-> <<>>]
NoSerialized == [name |-> "", len |-> 0, fields |-> <<>>, status |-> 0, error |-> <<>>]

----------------------------------------------------------------------------
(* derive_into_response *)

\* mutant of Find: the last attribute of that path
FindLast(attrs, name) ==
    IF \E i \in DOMAIN attrs : attrs[i].path = name
    THEN CHOOSE i \in DOMAIN attrs :
            /\ attrs[i].path = name
            /\ \A j \in (i + 1)..Len(attrs) : attrs[j].path # name
    ELSE 0

\* attrs.iter().find(|attr| attr.path().is_ident(name)): the position of the
\* first attribute of that path, 0 for None
Find(attrs, name) ==
    IF \E i \in DOMAIN attrs : attrs[i].path = name
    THEN CHOOSE i \in DOMAIN attrs :
            /\ attrs[i].path = name
            /\ \A j \in 1..(i - 1) : attrs[j].path # name
    ELSE 0

\* mutant of ParseInternalText: the empty string for the default
ParseInternalTextOrEmpty(attrs) ==
    LET i == Find(attrs, "internal_text") IN
    IF /\ i # 0
       /\ attrs[i].meta = "NameValue"
       /\ attrs[i].expr = "Lit"
       /\ attrs[i].lit = "Str"
    THEN attrs[i].str
    ELSE ""

\* mutant of ParseInternalText: the last internal_text attribute decides
ParseInternalTextLast(attrs) ==
    LET i == FindLast(attrs, "internal_text") IN
    IF /\ i # 0
       /\ attrs[i].meta = "NameValue"
       /\ attrs[i].expr = "Lit"
       /\ attrs[i].lit = "Str"
    THEN attrs[i].str
    ELSE DefaultText

\* lib.rs:79-92
ParseInternalText(attrs) ==
    LET i == Find(attrs, "internal_text") IN
    IF /\ i # 0
       /\ attrs[i].meta = "NameValue"
       /\ attrs[i].expr = "Lit"
       /\ attrs[i].lit = "Str"
    THEN attrs[i].str
    ELSE DefaultText

\* mutant of Wildcards: one wildcard for a tuple of any size
WildcardsOne(n) == <<"_">>

\* #(#all_fields),* : n wildcards separated by commas
RECURSIVE Wildcards(_)
Wildcards(n) ==
    IF n = 0 THEN <<>>
    ELSE IF n = 1 THEN <<"_">>
    ELSE Wildcards(n - 1) \o <<",", "_">>

\* lib.rs:102-116: the tokens that follow the variant's name in its pattern
FieldsPattern(fields) ==
    CASE fields.kind = "Named" -> <<"{", "..", "}">>
      [] fields.kind = "Unit" -> <<>>
      [] fields.kind = "Unnamed" -> <<"(">> \o Wildcards(fields.n) \o <<")">>

\* lib.rs:128-130: Self::#name #fields => ::axum::http::status::#status,
Arm(variant, tokens) ==
    [name |-> variant.ident,
     fields |-> FieldsPattern(variant.fields),
     status |-> <<"::axum::http::status::", tokens>>]

\* lib.rs:95-135: the arms pushed by the loop over the first n variants
RECURSIVE VariantOverrides(_, _)
VariantOverrides(variants, n) ==
    IF n = 0 THEN <<>>
    ELSE LET rest == VariantOverrides(variants, n - 1)
             variant == variants[n]
             attr == Find(variant.attrs, "status")
         IN  IF attr # 0 /\ variant.attrs[attr].meta = "List"
             THEN Append(rest, Arm(variant, variant.attrs[attr].tokens))
             ELSE rest

\* mutant of TracingStream: the feature gate dropped
TracingStreamAlways(f) ==
    <<"let internal_err = self.to_string();", "::tracing::error!(\"{internal_err}\");">>

\* lib.rs:140-153
TracingStream(f) ==
    IF f.tracing
    THEN <<"let internal_err = self.to_string();", "::tracing::error!(\"{internal_err}\");">>
    ELSE <<>>

\* lib.rs:157-184: the implementations of the expansion
Expanded(f) == {"IntoResponse"} \cup (IF f.serde THEN {"Serialize"} ELSE {})

\* mutant of IsEnum: only a union is refused
IsNotUnion(inp) == inp.kind # "union"

\* lib.rs:97: if let Data::Enum(data) = &input.data
IsEnum(inp) == inp.kind = "enum"

PanicMessage == "IntoResponse can only be derived on an Enum"

\* lib.rs:71-187
Derive ==
    /\ pc = "derive"
    /\ internal_text' = ParseInternalText(input.attrs)
    /\ \/ /\ IsEnum(input)
          /\ variant_overrides' = VariantOverrides(input.variants, Len(input.variants))
          /\ tracing' = TracingStream(features)
          /\ impls' = Expanded(features)
          /\ pc' = "expanded"
          /\ panic_msg' = ""
       \/ /\ ~IsEnum(input)
          /\ pc' = "panicked"
          /\ panic_msg' = PanicMessage
          /\ UNCHANGED <<variant_overrides, tracing, impls>>
    /\ UNCHANGED <<input, features>>
    /\ UNCHANGED call_vars

----------------------------------------------------------------------------
(* The generated code *)

\* ::axum::http::StatusCode::INTERNAL_SERVER_ERROR
INTERNAL_SERVER_ERROR == [code |-> 500]

\* the constant a path under ::axum::http::status:: names
StatusConst(path) ==
    CASE path[2] = "StatusCode::BAD_REQUEST" -> [code |-> 400]
      [] path[2] = "StatusCode::UNAUTHORIZED" -> [code |-> 401]
      [] path[2] = "StatusCode::INTERNAL_SERVER_ERROR" -> [code |-> 500]

\* StatusCode::as_u16
AsU16(status) == status.code

\* impl PartialEq<StatusCode> for u16
U16EqStatusCode(n, status) == n = AsU16(status)

\* self.to_string(): the variant's #[error("...")] message with the fields substituted
Display(v) == <<Messages[v.variant]>> \o v.fields

\* format!("{:?}", self) under #[derive(Debug)]: the variant's name and its fields
Debug(v) == <<Idents[v.variant]>> \o v.fields

\* mutant of ArmMatches: the pattern binds any value
ArmMatchesAny(arm, v) == TRUE

\* an arm Self::#name #fields matches the values of that variant
ArmMatches(arm, v) == arm.name = input.variants[v.variant].ident

\* match self { #(#variant_overrides)* _ => INTERNAL_SERVER_ERROR }
MatchStatus(arms, v) ==
    IF \E i \in DOMAIN arms : ArmMatches(arms[i], v)
    THEN LET i == CHOOSE i \in DOMAIN arms :
                    /\ ArmMatches(arms[i], v)
                    /\ \A j \in 1..(i - 1) : ~ArmMatches(arms[j], v)
         IN  StatusConst(arms[i].status)
    ELSE INTERNAL_SERVER_ERROR

TextEvent(text) == [op |-> "text", text |-> text]
\* #tracing, when it is not empty
RunTracing(stream, v) ==
    IF stream = <<>> THEN <<>> ELSE <<[op |-> "tracing::error", text |-> Display(v)]>>

\* mutant of IntoResponseText: the comparison with 500 inverted
IntoResponseTextInverted(status, v) ==
    IF status # INTERNAL_SERVER_ERROR
    THEN [text |-> <<internal_text>>,
          effects |-> RunTracing(tracing, v) \o <<TextEvent(<<internal_text>>)>>]
    ELSE [text |-> Display(v), effects |-> <<TextEvent(Display(v))>>]

\* lib.rs:166-173: the text and what computing it does
IntoResponseText(status, v) ==
    IF status = INTERNAL_SERVER_ERROR
    THEN [text |-> <<internal_text>>,
          effects |-> RunTracing(tracing, v) \o <<TextEvent(<<internal_text>>)>>]
    ELSE [text |-> Display(v), effects |-> <<TextEvent(Display(v))>>]

\* mutant of SerializeText: the error's own text under every status
SerializeTextUnmasked(status, v) ==
    [text |-> Display(v), effects |-> <<TextEvent(Display(v))>>]

\* lib.rs:208-214
SerializeText(status, v) ==
    IF U16EqStatusCode(status, INTERNAL_SERVER_ERROR)
    THEN [text |-> <<internal_text>>, effects |-> <<TextEvent(<<internal_text>>)>>]
    ELSE [text |-> Display(v), effects |-> <<TextEvent(Display(v))>>]

\* lib.rs:160-176
IntoResponseImpl(v) ==
    LET status == MatchStatus(variant_overrides, v)
        t == IntoResponseText(status, v)
    IN  [response |-> [status |-> status, body |-> t.text], effects |-> t.effects]

\* lib.rs:199-220
SerializeImpl(v) ==
    LET status == AsU16(MatchStatus(variant_overrides, v))
        t == SerializeText(status, v)
    IN  [serialized |-> [name |-> "", len |-> 0 + 1 + 1, fields |-> <<"status", "error">>,
                         status |-> status, error |-> t.text],
         effects |-> t.effects]

IntoResponse ==
    /\ pc = "expanded"
    /\ "IntoResponse" \in impls
    /\ \E v \in Values :
        /\ call' = "into_response"
        /\ self' = v
        /\ response' = IntoResponseImpl(v).response
        /\ effects' = IntoResponseImpl(v).effects
        /\ serialized' = NoSerialized
    /\ UNCHANGED <<input, features>>
    /\ UNCHANGED macro_vars

Serialize ==
    /\ pc = "expanded"
    /\ "Serialize" \in impls
    /\ \E v \in Values :
        /\ call' = "serialize"
        /\ self' = v
        /\ serialized' = SerializeImpl(v).serialized
        /\ effects' = SerializeImpl(v).effects
        /\ response' = NoResponse
    /\ UNCHANGED <<input, features>>
    /\ UNCHANGED macro_vars

----------------------------------------------------------------------------

Init ==
    /\ input \in Inputs
    /\ features \in [tracing : BOOLEAN, serde : BOOLEAN]
    /\ pc = "derive"
    /\ panic_msg = ""
    /\ internal_text = ""
    /\ variant_overrides = <<>>
    /\ tracing = <<>>
    /\ impls = {}
    /\ call = "none"
    /\ self = NoValue
    /\ response = NoResponse
    /\ serialized = NoSerialized
    /\ effects = <<>>

Next == Derive \/ IntoResponse \/ Serialize

Spec == Init /\ [][Next]_vars

----------------------------------------------------------------------------
(* Vocabulary of the properties *)

\* attrs[i] is the first attribute of the list with that path
IsFirst(attrs, i, name) ==
    /\ attrs[i].path = name
    /\ \A j \in 1..(i - 1) : attrs[j].path # name

\* an attribute of the form #[internal_text = "s"]
IsInternalTextStr(a) ==
    a.path = "internal_text" /\ a.meta = "NameValue" /\ a.expr = "Lit" /\ a.lit = "Str"

\* an attribute of the form #[status(X)]
IsStatusList(a) == a.path = "status" /\ a.meta = "List"

\* the numeric code of the status the tokens X of #[status(X)] name
CodeOf(tokens) ==
    CASE tokens = "StatusCode::BAD_REQUEST" -> 400
      [] tokens = "StatusCode::UNAUTHORIZED" -> 401
      [] tokens = "StatusCode::INTERNAL_SERVER_ERROR" -> 500

\* the declaration of the variant of the last call's value
SelfVariant == input.variants[self.variant]

\* the logging events among the effects of the last call
Logged == SelectSeq(effects, LAMBDA e : e.op = "tracing::error")

----------------------------------------------------------------------------
(* Properties *)

\* C1: a variant that carries no #[status(...)] attribute answers 500, and when
\* the enum has no #[internal_text = "..."] attribute the body is exactly
\* "Something went wrong".
C1_DefaultResponse ==
    (/\ call = "into_response"
     /\ \A i \in DOMAIN SelfVariant.attrs : ~IsStatusList(SelfVariant.attrs[i]))
    => /\ response.status = [code |-> 500]
       /\ (\A i \in DOMAIN input.attrs : ~IsInternalTextStr(input.attrs[i]))
            => response.body = <<"Something went wrong">>

\* a value with fields, of a variant without #[status(...)] in an enum without
\* #[internal_text = "..."], was answered
C1_Witness ==
    /\ call = "into_response"
    /\ \A i \in DOMAIN SelfVariant.attrs : ~IsStatusList(SelfVariant.attrs[i])
    /\ \A i \in DOMAIN input.attrs : ~IsInternalTextStr(input.attrs[i])
    /\ self.fields # <<>>
    /\ response.body = <<"Something went wrong">>

\* C2 as stated: the enum carries #[internal_text = "s"], so every 500 response
\* has body exactly s and never "Something went wrong".
C2_AnyInternalText ==
    (call = "into_response" /\ response.status = [code |-> 500])
    => \A i \in DOMAIN input.attrs :
            IsInternalTextStr(input.attrs[i])
            => /\ response.body = <<input.attrs[i].str>>
               /\ response.body # <<"Something went wrong">>

\* C2 (amended): when the first internal_text attribute of the enum is
\* #[internal_text = "s"], every 500 response has body exactly s, for every
\* variant, with or without an #[error(...)] message and a #[status(...)].
C2_FirstInternalText ==
    (call = "into_response" /\ response.status = [code |-> 500])
    => \A i \in DOMAIN input.attrs :
            (IsFirst(input.attrs, i, "internal_text") /\ IsInternalTextStr(input.attrs[i]))
            => response.body = <<input.attrs[i].str>>

\* the second variant, #[error("...")] without #[status(...)] as the test
\* program's ClientError, was answered under a doc comment followed by
\* #[internal_text = "overridden"]
C2_Witness ==
    /\ call = "into_response"
    /\ input.attrs = <<DocAttr, InternalTextStr("overridden")>>
    /\ self.variant = 2
    /\ SelfVariant.attrs = <<ErrorAttr>>
    /\ response = [status |-> [code |-> 500], body |-> <<"overridden">>]

\* C3 as stated: a variant annotated #[status(X)], X other than 500, answers
\* status X with the error's own text.
C3_AnyStatus ==
    call = "into_response"
    => \A i \in DOMAIN SelfVariant.attrs :
            (/\ IsStatusList(SelfVariant.attrs[i])
             /\ CodeOf(SelfVariant.attrs[i].tokens) # 500)
            => /\ response.status.code = CodeOf(SelfVariant.attrs[i].tokens)
               /\ response.body = Display(self)

\* C3 (amended): a variant whose first status attribute is #[status(X)], X
\* other than 500, answers status X with the error's own text.
C3_FirstStatus ==
    call = "into_response"
    => \A i \in DOMAIN SelfVariant.attrs :
            (/\ IsFirst(SelfVariant.attrs, i, "status")
             /\ IsStatusList(SelfVariant.attrs[i])
             /\ CodeOf(SelfVariant.attrs[i].tokens) # 500)
            => /\ response.status.code = CodeOf(SelfVariant.attrs[i].tokens)
               /\ response.body = Display(self)

\* a value with two different fields, of a variant declared
\* #[error("...")] #[status(StatusCode::UNAUTHORIZED)] in an enum under
\* #[internal_text = "overridden"], was answered 401 with its own text
C3_Witness ==
    /\ call = "into_response"
    /\ input.attrs = <<InternalTextStr("overridden")>>
    /\ SelfVariant.attrs = <<ErrorAttr, StatusList("StatusCode::UNAUTHORIZED")>>
    /\ Len(self.fields) = 2 /\ self.fields[1] # self.fields[2]
    /\ response = [status |-> [code |-> 401], body |-> Display(self)]

\* C4: a variant overridden with #[status(...)] answers the custom status and
\* the text of the error's Debug implementation.
C4_DebugText ==
    call = "into_response"
    => \A i \in DOMAIN SelfVariant.attrs :
            (/\ IsFirst(SelfVariant.attrs, i, "status")
             /\ IsStatusList(SelfVariant.attrs[i]))
            => /\ response.status.code = CodeOf(SelfVariant.attrs[i].tokens)
               /\ response.body = Debug(self)

\* C5: a 500 response, of a variant without #[status(...)] or with an explicit
\* #[status(StatusCode::INTERNAL_SERVER_ERROR)], carries the internal text and
\* not the error's own message, and equals the response of every other value
\* that resolves to 500.
C5_Masked ==
    (call = "into_response" /\ response.status = [code |-> 500])
    => /\ response.body = <<internal_text>>
       /\ response.body # Display(self)
       /\ \A w \in Values :
            IntoResponseImpl(w).response.status = [code |-> 500]
            => IntoResponseImpl(w).response = response

\* a value with fields of a variant under an explicit
\* #[status(StatusCode::INTERNAL_SERVER_ERROR)] was answered, in an enum that
\* has another variant resolving to 500
C5_Witness ==
    /\ call = "into_response"
    /\ response.status = [code |-> 500]
    /\ SelfVariant.attrs = <<StatusList("StatusCode::INTERNAL_SERVER_ERROR"), ErrorAttr>>
    /\ self.fields # <<>>
    /\ \E w \in Values :
        /\ w.variant # self.variant
        /\ IntoResponseImpl(w).response.status = [code |-> 500]

\* C6: deriving on a struct or a union panics with "IntoResponse can only be
\* derived on an Enum" and emits no implementation, whatever the attributes.
C6_NonEnumPanics ==
    (input.kind # "enum" /\ pc # "derive")
    => /\ pc = "panicked"
       /\ panic_msg = "IntoResponse can only be derived on an Enum"
       /\ impls = {}
       /\ call = "none"

\* the macro ran on a union under #[internal_text = "overridden"] and a doc comment
C6_Witness ==
    /\ pc = "panicked"
    /\ input.kind = "union"
    /\ input.attrs = <<InternalTextStr("overridden"), DocAttr>>

\* C7: the serde feature emits a Serialize that writes exactly the fields
\* "status" then "error", the u16 code of the status and the body that
\* into_response produces for the same value.
C7_SerializeAgrees ==
    /\ pc = "expanded" => (("Serialize" \in impls) <=> features.serde)
    /\ call = "serialize"
        => /\ features.serde
           /\ serialized.len = 2
           /\ serialized.fields = <<"status", "error">>
           /\ serialized.status = IntoResponseImpl(self).response.status.code
           /\ serialized.error = IntoResponseImpl(self).response.body

\* a value with fields of a variant without override was serialized as 500 and
\* the internal text, in an enum that overrides another variant
C7_Witness ==
    /\ call = "serialize"
    /\ self.fields # <<>>
    /\ variant_overrides # <<>>
    /\ serialized.status = 500
    /\ serialized.error = <<"overridden">>

\* C8: with the tracing feature into_response logs the error's own message
\* exactly once, before the masked body is built, when the status is 500 and
\* nothing otherwise; without the feature, and in serialize, nothing is logged.
C8_Tracing ==
    /\ call = "into_response"
        => IF features.tracing /\ response.status = [code |-> 500]
           THEN /\ Len(Logged) = 1
                /\ effects = <<[op |-> "tracing::error", text |-> Display(self)],
                               [op |-> "text", text |-> response.body]>>
           ELSE Logged = <<>>
    /\ call = "serialize" => Logged = <<>>

\* under the tracing feature a value with fields was answered 500 and its own
\* message logged first
C8_Witness ==
    /\ call = "into_response"
    /\ features.tracing
    /\ response.status = [code |-> 500]
    /\ self.fields # <<>>
    /\ effects[1] = [op |-> "tracing::error", text |-> Display(self)]

\* the variants the macro overrides: those whose first status attribute is a list
Overridden ==
    {i \in DOMAIN input.variants :
        \E a \in DOMAIN input.variants[i].attrs :
            /\ IsFirst(input.variants[i].attrs, a, "status")
            /\ IsStatusList(input.variants[i].attrs[a])}

\* the tokens after the name ignore all the fields of that shape
IgnoresFields(pattern, fields) ==
    CASE fields.kind = "Named" -> pattern = <<"{", "..", "}">>
      [] fields.kind = "Unit" -> pattern = <<>>
      [] fields.kind = "Unnamed" ->
            /\ Len(pattern) >= 2
            /\ pattern[1] = "(" /\ pattern[Len(pattern)] = ")"
            /\ Len(SelectSeq(pattern, LAMBDA t : t = "_")) = fields.n
            /\ Len(SelectSeq(pattern, LAMBDA t : t \notin {"(", ")", "_", ","})) = 0

\* C9: each overridden variant has one arm, in declaration order, whose pattern
\* ignores all the fields, and the status of a value depends on its variant
\* only, whatever its fields.
C9_StatusByVariant ==
    /\ pc = "expanded"
        => /\ Len(variant_overrides) = Cardinality(Overridden)
           /\ \A i \in Overridden :
                LET k == Cardinality({j \in Overridden : j <= i}) IN
                /\ variant_overrides[k].name = input.variants[i].ident
                /\ IgnoresFields(variant_overrides[k].fields, input.variants[i].fields)
    /\ call = "into_response"
        => \A w \in Values :
                w.variant = self.variant
                => IntoResponseImpl(w).response.status = response.status

\* every variant of the enum is overridden, the second a tuple of two fields, and
\* a value of it with two different fields was answered
C9_Witness ==
    /\ call = "into_response"
    /\ Len(variant_overrides) = 2
    /\ self.variant = 2
    /\ SelfVariant.fields = [kind |-> "Unnamed", n |-> 2]
    /\ self.fields[1] # self.fields[2]
    /\ response.status = [code |-> 401]

\* C10: on an enum the macro never fails; the text is that of the first
\* internal_text attribute when it is a name = string pair and the default
\* otherwise, even before a later well-formed one; a variant has an arm exactly
\* when its first status attribute is a list, with the tokens of that one, and
\* answers 500 otherwise.
C10_FirstAttributeOnly ==
    (input.kind = "enum" /\ pc # "derive")
    => /\ pc = "expanded"
       /\ panic_msg = ""
       /\ "IntoResponse" \in impls
       /\ \A i \in DOMAIN input.attrs :
            IsFirst(input.attrs, i, "internal_text")
            => internal_text = IF IsInternalTextStr(input.attrs[i])
                               THEN input.attrs[i].str
                               ELSE "Something went wrong"
       /\ (\A i \in DOMAIN input.attrs : input.attrs[i].path # "internal_text")
            => internal_text = "Something went wrong"
       /\ \A i \in DOMAIN input.variants :
            LET attrs == input.variants[i].attrs
                arms == {k \in DOMAIN variant_overrides :
                            variant_overrides[k].name = input.variants[i].ident}
            IN  /\ arms # {} <=> i \in Overridden
                /\ \A k \in arms : \A a \in DOMAIN attrs :
                        IsFirst(attrs, a, "status")
                        => variant_overrides[k].status[2] = attrs[a].tokens
       /\ (call = "into_response" /\ self.variant \notin Overridden)
            => response.status = [code |-> 500]

\* a variant declared #[status] #[status(StatusCode::BAD_REQUEST)] was answered
\* 500 with the default text, in an enum declared
\* #[internal_text("overridden")] #[internal_text = "overridden"]
C10_Witness ==
    /\ call = "into_response"
    /\ input.attrs = <<InternalTextList, InternalTextStr("overridden")>>
    /\ SelfVariant.attrs = <<StatusPath, StatusList("StatusCode::BAD_REQUEST")>>
    /\ response = [status |-> [code |-> 500], body |-> <<"Something went wrong">>]

====
